---- MODULE Spec2Model ----
(***************************************************************************)
(* State-machine model of src/main.py: the incremental                     *)
(* fetch-paginate-merge pipeline (search harvest, body pagination, comment *)
(* pagination, AI enrichment, merge into the Excel store).                 *)
(*                                                                         *)
(* Five specifications share the module:                                   *)
(*   Spec          runs of main() against the persisted store              *)
(*   SpecBody      one invocation of fetch_article_pages, page by page     *)
(*   SpecComments  one invocation of fetch_comments_with_selenium          *)
(*   SpecAI        one invocation of analyze_article_with_ai               *)
(*   SpecSessions  the browser sessions of one run: the harvest, then the  *)
(*                 comment fetches of its articles                         *)
(***************************************************************************)
EXTENDS Integers, Sequences, FiniteSets, TLC

VARIABLES
    \* ---- main(): the store file and the locals of the current run
    file_exists,        \* EXCEL_FILE exists on disk
    store,              \* rows of EXCEL_FILE, in file order
    store_columns,      \* header row of EXCEL_FILE
    pc,                 \* position of main(): idle / harvest / loop / done / raised
    AI_ENABLED,         \* module global set at import time (lines 32-43)
    df_existing,        \* DataFrame loaded at line 243 (or empty, line 247)
    existing_urls,      \* set(df_existing['URL'])
    articles,           \* result of get_yahoo_news_with_selenium
    i,                  \* 1-based position of the for loop of line 257
    new_articles_data,  \* records assembled in this run
    calls,              \* <<operation, url>> pairs invoked in this run
    wrote,              \* to_excel was executed in this run
    store_at_start,     \* history: the rows of EXCEL_FILE when the run started
    raised_by,          \* history: the call whose exception left main(), or none
    \* ---- fetch_article_pages
    body_pc,            \* idle / loop / returned
    page,               \* loop variable of line 100
    body_pages,         \* list built at line 117
    body_fetches,       \* number of requests.get calls made
    body_log,           \* history: the response to each request, in order
    \* ---- fetch_comments_with_selenium
    com_pc,             \* idle / start / loop / returned / raised
    com_url,            \* argument base_url
    com_page,           \* loop variable of line 142
    total_comments,     \* list extended at line 176 (runs of comment ids)
    per_page_comments_text, \* list appended at line 177
    com_fetches,        \* number of driver.get calls made
    com_log,            \* history: what each iteration met, in order
    driver,             \* browser session: none / open / quit
    \* ---- analyze_article_with_ai
    ai_pc,              \* idle / ready / returned
    ai_enabled,         \* value of the AI_ENABLED global seen by the call
    ai_title,           \* argument title
    ai_body,            \* argument body_text
    ai_result,          \* returned dict
    ai_requests,        \* prompts sent to generate_content
    ai_response,        \* history: the service's answer to the call, if one was made
    \* ---- get_yahoo_news_with_selenium
    hv_pc,              \* idle / start / try / returned / raised
    hv_driver,          \* browser session: none / open / quit
    hv_result           \* returned articles_data

mainVars == <<file_exists, store, store_columns, pc, AI_ENABLED, df_existing, existing_urls,
              articles, i, new_articles_data, calls, wrote,
              store_at_start, raised_by>>
bodyVars == <<body_pc, page, body_pages, body_fetches, body_log>>
comVars  == <<com_pc, com_url, com_page, total_comments, per_page_comments_text,
              com_fetches, com_log, driver>>
aiVars   == <<ai_pc, ai_enabled, ai_title, ai_body, ai_result, ai_requests,
              ai_response>>
hvVars   == <<hv_pc, hv_driver, hv_result>>
vars     == <<mainVars, bodyVars, comVars, aiVars, hvVars>>

(***************************************************************************)
(* Program constants (lines 26-28).                                        *)
(***************************************************************************)
MAX_BODY_PAGES == 10
MAX_COMMENT_PAGES == 10
MAX_TOTAL_COMMENTS == 500
\* line 197: the least stripped body length that is analysed
MIN_BODY_LEN == 10
\* line 215: the body is cut to this length in the prompt
MAX_PROMPT_BODY == 2000

(***************************************************************************)
(* Bounds of the model.                                                    *)
(***************************************************************************)
\* distinct non-empty page texts a remote article page can carry
NumBodyTexts == 3
\* number of comments on a short and on a long remote comment page
SmallPage == 40
LargePage == 300
\* length of body text 1 (a short text) and of the other body texts
ShortTextLen == 5
LongTextLen == 2500
\* entries of one search listing
MaxListing == 2

(***************************************************************************)
(* URLs found in a listing: an article URL (it contains "/articles/") and  *)
(* a link of another shape.                                                *)
(***************************************************************************)
ArticleURLs == {"/articles/a"}
OtherURLs == {"/pickup/b"}
URLs == ArticleURLs \cup OtherURLs

Last(s) == s[Len(s)]

(***************************************************************************)
(* fetch_article_pages (lines 98-121).                                     *)
(*                                                                         *)
(* A remote response to one requests.get is                                *)
(*   error   requests.RequestException (network error, timeout, or the     *)
(*           HTTP error status raised by raise_for_status)                 *)
(*   nobody  the page has no div matching "article_body"                   *)
(*   body    the page has one; text is the joined paragraph text,          *)
(*           0 standing for the empty string                               *)
(***************************************************************************)
BodyError  == [kind |-> "error", text |-> 0]
BodyAbsent == [kind |-> "nobody", text |-> 0]
BodyText(t) == [kind |-> "body", text |-> t]
BodyResponses == {BodyError, BodyAbsent} \cup {BodyText(t) : t \in 0..NumBodyTexts}

\* state of the loop before its first iteration (lines 99-100)
BodyLoopInit == [page |-> 1, body_pages |-> <<>>, stop |-> FALSE]

\* variant: only an empty text stops the loop
BodyTextStops_EmptyOnly(pages, t) == t = 0

\* line 114: the stop test on the extracted text
BodyTextStops(pages, t) == t = 0 \/ (pages # <<>> /\ t = Last(pages))

\* line 108-110: a page without body region ends the loop only after page 1
BodyAbsentStops(p) == p > 1

\* variant: a failed request is skipped and the next page is requested
BodyStep_ErrorContinues(st, r) ==
    IF r.kind = "error" THEN [st EXCEPT !.page = st.page + 1]
    ELSE IF r.kind = "nobody" THEN
        IF st.page > 1 THEN [st EXCEPT !.stop = TRUE]
        ELSE [st EXCEPT !.page = st.page + 1]
    ELSE IF r.text = 0 \/ (st.body_pages # <<>> /\ r.text = Last(st.body_pages))
    THEN [st EXCEPT !.stop = TRUE]
    ELSE [st EXCEPT !.body_pages = Append(st.body_pages, r.text),
                    !.page = st.page + 1]

\* one iteration of the for loop (lines 101-120) on response r
BodyStep(st, r) ==
    IF r.kind = "error" THEN [st EXCEPT !.stop = TRUE]
    ELSE IF r.kind = "nobody" THEN
        IF BodyAbsentStops(st.page) THEN [st EXCEPT !.stop = TRUE]
        ELSE [st EXCEPT !.page = st.page + 1]
    ELSE IF BodyTextStops(st.body_pages, r.text) THEN [st EXCEPT !.stop = TRUE]
    ELSE [st EXCEPT !.body_pages = Append(st.body_pages, r.text),
                    !.page = st.page + 1]

\* variant: the loop is bounded by its breaks alone
BodyLoopRuns_NoBound(st) == ~st.stop

\* the loop runs while range(1, MAX_BODY_PAGES + 1) has a value and no break
BodyLoopRuns(st) == ~st.stop /\ st.page <= MAX_BODY_PAGES

\* a site is the sequence of its pages' responses; requests past it fail
SiteAt(site, p) == IF p <= Len(site) THEN site[p] ELSE BodyError

RECURSIVE BodyLoop(_, _)
BodyLoop(st, site) ==
    IF BodyLoopRuns(st) THEN BodyLoop(BodyStep(st, SiteAt(site, st.page)), site)
    ELSE st

\* fetch_article_pages(base_url) against a given site
fetch_article_pages(site) == BodyLoop(BodyLoopInit, site).body_pages

\* --- the same function, one request per step
BodyIdle ==
    /\ body_pc = "idle"
    /\ page = 0
    /\ body_pages = <<>>
    /\ body_fetches = 0
    /\ body_log = <<>>

BodyInit ==
    /\ body_pc = "loop"
    /\ page = BodyLoopInit.page
    /\ body_pages = BodyLoopInit.body_pages
    /\ body_fetches = 0
    /\ body_log = <<>>

BodyFetchPage ==
    /\ body_pc = "loop"
    /\ BodyLoopRuns([page |-> page, body_pages |-> body_pages, stop |-> FALSE])
    /\ \E r \in BodyResponses :
         LET st == BodyStep([page |-> page, body_pages |-> body_pages,
                             stop |-> FALSE], r)
         IN  /\ page' = st.page
             /\ body_pages' = st.body_pages
             /\ body_pc' = IF st.stop THEN "returned" ELSE "loop"
             /\ body_log' = Append(body_log, r)
    /\ body_fetches' = body_fetches + 1
    /\ UNCHANGED <<mainVars, comVars, aiVars, hvVars>>

\* the range is exhausted: line 121
BodyReturn ==
    /\ body_pc = "loop"
    /\ ~BodyLoopRuns([page |-> page, body_pages |-> body_pages, stop |-> FALSE])
    /\ body_pc' = "returned"
    /\ UNCHANGED <<page, body_pages, body_fetches, body_log, mainVars, comVars,
                   aiVars, hvVars>>

NextBody == BodyFetchPage \/ BodyReturn

(***************************************************************************)
(* fetch_comments_with_selenium (lines 123-186).                           *)
(*                                                                         *)
(* The comments of a page, after the per-page dict.fromkeys of line 171,   *)
(* are distinct texts: a page is the run lo..hi of comment ids (hi < lo    *)
(* for a page without comments).  One iteration meets one of               *)
(*   raise    driver.get or the parse raises an unexpected exception       *)
(*   timeout  the comment-list marker does not appear (TimeoutException)   *)
(*   page     the marker appears and the page carries the run lo..hi       *)
(***************************************************************************)
ComRaise   == [kind |-> "raise", lo |-> 1, hi |-> 0]
ComTimeout == [kind |-> "timeout", lo |-> 1, hi |-> 0]
ComPage(l, h) == [kind |-> "page", lo |-> l, hi |-> h]
ComResponses ==
    {ComRaise, ComTimeout, ComPage(1, 0)}
    \cup {ComPage(l, l + n - 1) : l \in {1, SmallPage + 1}, n \in {SmallPage, LargePage}}

RunSize(r) == IF r.hi < r.lo THEN 0 ELSE r.hi - r.lo + 1

\* len() of a list kept as a sequence of runs
RECURSIVE CountComments(_)
CountComments(runsOfIds) ==
    IF runsOfIds = <<>> THEN 0
    ELSE RunSize(Head(runsOfIds)) + CountComments(Tail(runsOfIds))

\* line 127
HasArticlesSegment(url) == url \in ArticleURLs

ComLoopInit == [page |-> 1, total_comments |-> <<>>,
                per_page_comments_text |-> <<>>, stop |-> FALSE]

\* variant: the cap is never tested
CapReached_Never(total) == FALSE

\* line 179: the cap test made after a page was accumulated
CapReached(total) == CountComments(total) >= MAX_TOTAL_COMMENTS

\* variant: a marker timeout skips the page and the next one is loaded
ComStep_TimeoutContinues(st, r) ==
    IF r.kind = "raise" THEN [st EXCEPT !.stop = TRUE]
    ELSE IF r.kind = "timeout" THEN [st EXCEPT !.page = st.page + 1]
    ELSE IF r.hi < r.lo THEN [st EXCEPT !.stop = TRUE]
    ELSE LET total == Append(st.total_comments, [lo |-> r.lo, hi |-> r.hi])
             pages == Append(st.per_page_comments_text, [lo |-> r.lo, hi |-> r.hi])
         IN  IF CountComments(total) >= MAX_TOTAL_COMMENTS
             THEN [st EXCEPT !.total_comments = total,
                             !.per_page_comments_text = pages,
                             !.stop = TRUE]
             ELSE [st EXCEPT !.total_comments = total,
                             !.per_page_comments_text = pages,
                             !.page = st.page + 1]

\* one iteration of the for loop (lines 143-180) on response r; the except
\* clause of line 181 ends the loop like a break
ComStep(st, r) ==
    IF r.kind = "raise" \/ r.kind = "timeout" THEN [st EXCEPT !.stop = TRUE]
    ELSE IF RunSize(r) = 0 THEN [st EXCEPT !.stop = TRUE]
    ELSE LET total == Append(st.total_comments, [lo |-> r.lo, hi |-> r.hi])
             pages == Append(st.per_page_comments_text, [lo |-> r.lo, hi |-> r.hi])
         IN  IF CapReached(total)
             THEN [st EXCEPT !.total_comments = total,
                             !.per_page_comments_text = pages,
                             !.stop = TRUE]
             ELSE [st EXCEPT !.total_comments = total,
                             !.per_page_comments_text = pages,
                             !.page = st.page + 1]

ComLoopRuns(st) == ~st.stop /\ st.page <= MAX_COMMENT_PAGES

ComSiteAt(site, p) == IF p <= Len(site) THEN site[p] ELSE ComTimeout

RECURSIVE ComLoop(_, _)
ComLoop(st, site) ==
    IF ComLoopRuns(st) THEN ComLoop(ComStep(st, ComSiteAt(site, st.page)), site)
    ELSE st

\* fetch_comments_with_selenium(base_url): started tells whether
\* webdriver.Chrome (line 139) succeeds; raised is an exception that leaves
\* the function, the other fields are the returned tuple
fetch_comments_with_selenium(base_url, started, site) ==
    IF ~HasArticlesSegment(base_url)
    THEN [raised |-> FALSE, count |-> 0, pages |-> <<>>]
    ELSE IF ~started
    THEN [raised |-> TRUE, count |-> 0, pages |-> <<>>]
    ELSE LET st == ComLoop(ComLoopInit, site)
         IN  [raised |-> FALSE, count |-> CountComments(st.total_comments),
              pages |-> st.per_page_comments_text]

\* --- the same function, one page per step
ComIdle ==
    /\ com_pc = "idle"
    /\ com_url = "/articles/a"
    /\ com_page = 0
    /\ total_comments = <<>>
    /\ per_page_comments_text = <<>>
    /\ com_fetches = 0
    /\ com_log = <<>>
    /\ driver = "none"

ComInit ==
    /\ com_pc = "start"
    /\ com_url \in URLs
    /\ com_page = 0
    /\ total_comments = ComLoopInit.total_comments
    /\ per_page_comments_text = ComLoopInit.per_page_comments_text
    /\ com_fetches = 0
    /\ com_log = <<>>
    /\ driver = "none"

\* lines 127-128: the URL has not the article shape
ComRejectUrl ==
    /\ com_pc = "start"
    /\ ~HasArticlesSegment(com_url)
    /\ com_pc' = "returned"
    /\ UNCHANGED <<com_url, com_page, total_comments, per_page_comments_text,
                   com_fetches, com_log, driver, mainVars, bodyVars, aiVars, hvVars>>

\* line 139, outside the try block: the session starts or the call raises
ComStartDriver ==
    /\ com_pc = "start"
    /\ HasArticlesSegment(com_url)
    /\ \E started \in BOOLEAN :
         IF started
         THEN /\ driver' = "open"
              /\ com_pc' = "loop"
              /\ com_page' = ComLoopInit.page
         ELSE /\ driver' = "none"
              /\ com_pc' = "raised"
              /\ com_page' = com_page
    /\ UNCHANGED <<com_url, total_comments, per_page_comments_text, com_fetches,
                   com_log, mainVars, bodyVars, aiVars, hvVars>>

ComCurrent == [page |-> com_page, total_comments |-> total_comments,
               per_page_comments_text |-> per_page_comments_text, stop |-> FALSE]

\* one iteration; when it ends the loop, the finally clause and the return
ComFetchPage ==
    /\ com_pc = "loop"
    /\ ComLoopRuns(ComCurrent)
    /\ \E r \in ComResponses :
         LET st == ComStep(ComCurrent, r)
         IN  /\ com_page' = st.page
             /\ total_comments' = st.total_comments
             /\ per_page_comments_text' = st.per_page_comments_text
             /\ com_pc' = IF st.stop THEN "returned" ELSE "loop"
             /\ driver' = IF st.stop THEN "quit" ELSE driver
             /\ com_log' = Append(com_log, r)
    /\ com_fetches' = com_fetches + 1
    /\ UNCHANGED <<com_url, mainVars, bodyVars, aiVars, hvVars>>

\* the range is exhausted: lines 183-186
ComReturn ==
    /\ com_pc = "loop"
    /\ ~ComLoopRuns(ComCurrent)
    /\ com_pc' = "returned"
    /\ driver' = "quit"
    /\ UNCHANGED <<com_url, com_page, total_comments, per_page_comments_text,
                   com_fetches, com_log, mainVars, bodyVars, aiVars, hvVars>>

\* the returned total_count (line 186)
ComTotalCount == CountComments(total_comments)

NextComments == ComRejectUrl \/ ComStartDriver \/ ComFetchPage \/ ComReturn

(***************************************************************************)
(* analyze_article_with_ai (lines 188-237).                                *)
(*                                                                         *)
(* Body texts are the ids 0..NumBodyTexts of the body pages; TextLen is    *)
(* the length of the stripped text.  The service answers one of            *)
(*   raise    generate_content raises                                      *)
(*   garbage  the text is no JSON object                                   *)
(*   json     a JSON object; a key it lacks is "MISSING"                   *)
(***************************************************************************)
TextLen(t) == IF t = 0 THEN 0 ELSE IF t = 1 THEN ShortTextLen ELSE LongTextLen

Titles == {"", "tA", "tB"}

AIRaise == [kind |-> "raise", title_sentiment |-> "MISSING", title_category |-> "MISSING",
            body_sentiment |-> "MISSING", body_category |-> "MISSING"]
AIGarbage == [AIRaise EXCEPT !.kind = "garbage"]
AIJson(ts, tc, bs, bc) ==
    [kind |-> "json", title_sentiment |-> ts, title_category |-> tc,
     body_sentiment |-> bs, body_category |-> bc]
AIResponses ==
    {AIRaise, AIGarbage}
    \cup {AIJson(ts, tc, bs, bc) : ts \in {"positive", "negative", "MISSING"},
                                   tc \in {"management", "MISSING"},
                                   bs \in {"neutral", "MISSING"},
                                   bc \in {"other", "MISSING"}}

\* lines 189-192
default_response ==
    [title_sentiment |-> "N/A", title_category |-> "N/A",
     body_sentiment |-> "N/A", body_category |-> "N/A"]

\* variant: the guard tests the flag and not the title
AISkips_FlagOnly(enabled, title) == ~enabled

\* line 194: the guard that returns before any request
AISkips(enabled, title) == ~enabled \/ title = ""

\* line 197
analyze_body(body_text) == TextLen(body_text) >= MIN_BODY_LEN

Min(a, b) == IF a < b THEN a ELSE b

\* lines 199-223: what the prompt carries
Prompt(title, body_text) ==
    [title |-> title,
     body_len |-> IF analyze_body(body_text)
                  THEN Min(TextLen(body_text), MAX_PROMPT_BODY) ELSE 0,
     body_keys |-> analyze_body(body_text)]

\* dict.get(key, "N/A") of lines 230-233
GetOrNA(v) == IF v = "MISSING" THEN "N/A" ELSE v

\* the whole function: the returned dict and the requests it sent
analyze_article_with_ai(enabled, title, body_text, svc) ==
    IF AISkips(enabled, title)
    THEN [analysis |-> default_response, requests |-> <<>>]
    ELSE [analysis |->
            IF svc.kind = "json"
            THEN [title_sentiment |-> GetOrNA(svc.title_sentiment),
                  title_category |-> GetOrNA(svc.title_category),
                  body_sentiment |-> GetOrNA(svc.body_sentiment),
                  body_category |-> GetOrNA(svc.body_category)]
            ELSE default_response,
          requests |-> <<Prompt(title, body_text)>>]

AIIdle ==
    /\ ai_pc = "idle"
    /\ ai_enabled = FALSE
    /\ ai_title = ""
    /\ ai_body = 0
    /\ ai_result = default_response
    /\ ai_requests = <<>>
    /\ ai_response = <<>>

AIInit ==
    /\ ai_pc = "ready"
    /\ ai_enabled \in BOOLEAN
    /\ ai_title \in Titles
    /\ ai_body \in 0..NumBodyTexts
    /\ ai_result = default_response
    /\ ai_requests = <<>>
    /\ ai_response = <<>>

AICall ==
    /\ ai_pc = "ready"
    /\ \E svc \in AIResponses :
         LET r == analyze_article_with_ai(ai_enabled, ai_title, ai_body, svc)
         IN  /\ ai_result' = r.analysis
             /\ ai_requests' = r.requests
             /\ ai_response' = IF r.requests = <<>> THEN <<>> ELSE <<svc>>
    /\ ai_pc' = "returned"
    /\ UNCHANGED <<ai_enabled, ai_title, ai_body, mainVars, bodyVars,
                   comVars, hvVars>>

NextAI == AICall

(***************************************************************************)
(* get_yahoo_news_with_selenium (lines 50-96).                             *)
(*                                                                         *)
(* A raw listing entry is one <li> of the result page: complete tells      *)
(* whether the four tags of lines 68-71 were all found.                    *)
(***************************************************************************)
ParseableDate == "2024/9/29(Mon) 16:35"
UnparseableDate == "somewhere last week"

\* lines 81-86: the weekday is dropped and the date re-formatted with
\* zero-padded fields; a string strptime rejects is kept as it is
NormalizeDate(d) == IF d = ParseableDate THEN "2024/09/29 16:35" ELSE d

RawEntry(c, t, u, d, s) ==
    [complete |-> c, title |-> t, URL |-> u, date |-> d, source |-> s]
RawEntries ==
    {RawEntry(TRUE, "tA", "/articles/a", ParseableDate, "src"),
     RawEntry(TRUE, "tB", "/pickup/b", UnparseableDate, ""),
     RawEntry(TRUE, "", "/articles/a", ParseableDate, "src"),
     RawEntry(FALSE, "tB", "/pickup/b", ParseableDate, "src")}
RawListings == UNION {[1..n -> RawEntries] : n \in 0..MaxListing}

\* line 73 and line 88: which entries become stubs
EntryKept(e) == e.complete /\ e.title # "" /\ e.URL # ""

\* lines 67-91
RECURSIVE ExtractStubs(_)
ExtractStubs(raw) ==
    IF raw = <<>> THEN <<>>
    ELSE LET e == Head(raw)
             rest == ExtractStubs(Tail(raw))
         IN  IF EntryKept(e)
             THEN <<[title |-> e.title, URL |-> e.URL,
                     date |-> NormalizeDate(e.date), source |-> e.source]>> \o rest
             ELSE rest

\* how one call ends: the session cannot start (line 56, outside the try),
\* the page load raises (line 61, try/finally without except), or the page
\* is parsed
HarvestFailures == {"harvest_start", "harvest_load"}

\* --- the same function, step by step, with its browser session
\* variant: the session is quit only when the try block ends normally
HvDriverAfterTry_NoFinally(raised) == IF raised THEN "open" ELSE "quit"

\* lines 92-93: the finally clause runs however the try block ends
HvDriverAfterTry(raised) == "quit"

HvIdle ==
    /\ hv_pc = "idle"
    /\ hv_driver = "none"
    /\ hv_result = <<>>

HvInit ==
    /\ hv_pc = "start"
    /\ hv_driver = "none"
    /\ hv_result = <<>>

\* line 56, outside the try block: the session starts or the call raises
HvStartDriver ==
    /\ hv_pc = "start"
    /\ \E started \in BOOLEAN :
         IF started
         THEN hv_driver' = "open" /\ hv_pc' = "try"
         ELSE hv_driver' = hv_driver /\ hv_pc' = "raised"
    /\ UNCHANGED <<hv_result, mainVars, bodyVars, comVars, aiVars>>

\* lines 59-96: the page load raises, or the page is parsed and returned
HvTry ==
    /\ hv_pc = "try"
    /\ \/ /\ hv_driver' = HvDriverAfterTry(TRUE)
          /\ hv_pc' = "raised"
          /\ UNCHANGED hv_result
       \/ \E raw \in RawListings :
            /\ hv_result' = ExtractStubs(raw)
            /\ hv_driver' = HvDriverAfterTry(FALSE)
            /\ hv_pc' = "returned"
    /\ UNCHANGED <<mainVars, bodyVars, comVars, aiVars>>

NextHarvest == HvStartDriver \/ HvTry

\* main() line 268: after the harvest returned, the comments of one of its
\* articles are fetched; the call starts with fresh locals
ComCall ==
    /\ hv_pc = "returned"
    /\ com_pc \in {"idle", "returned"}
    /\ \E k \in 1..Len(hv_result) : com_url' = hv_result[k].URL
    /\ com_pc' = "start"
    /\ com_page' = 0
    /\ total_comments' = ComLoopInit.total_comments
    /\ per_page_comments_text' = ComLoopInit.per_page_comments_text
    /\ com_fetches' = 0
    /\ com_log' = <<>>
    /\ driver' = "none"
    /\ UNCHANGED <<hvVars, mainVars, bodyVars, aiVars>>

(***************************************************************************)
(* The store: EXCEL_FILE read by read_excel and written by to_excel.       *)
(* A row carries the static fields and its page fields body[k],            *)
(* comments[k]; a page field a row lacks is an empty cell.                 *)
(***************************************************************************)
NaN == "<NaN>"
StringFields == {"title", "URL", "date", "source", "title_sentiment",
                 "title_category", "body_sentiment", "body_category"}

\* read_excel gives NaN for an empty cell; to_excel writes NaN as empty
CellFromFile(v) == IF v = "" THEN NaN ELSE v
CellToFile(v) == IF v = NaN THEN "" ELSE v
RowFromFile(r) ==
    [f \in DOMAIN r |-> IF f \in StringFields THEN CellFromFile(r[f]) ELSE r[f]]
RowToFile(r) ==
    [f \in DOMAIN r |-> IF f \in StringFields THEN CellToFile(r[f]) ELSE r[f]]
read_excel(rows) == [k \in 1..Len(rows) |-> RowFromFile(rows[k])]
to_excel(df) == [k \in 1..Len(df) |-> RowToFile(df[k])]

URLsOf(rows) == {rows[k].URL : k \in 1..Len(rows)}

\* variant: no URL is taken as known
IsKnown_Never(url, known) == FALSE

\* line 258
IsKnown(url, known) == url \in known

\* lines 275-291
ArticleRecord(a, comments_count, comment_pages, analysis, pages) ==
    [title |-> a.title, URL |-> a.URL, date |-> a.date, source |-> a.source,
     comments_count |-> comments_count,
     title_sentiment |-> analysis.title_sentiment,
     title_category |-> analysis.title_category,
     body_sentiment |-> analysis.body_sentiment,
     body_category |-> analysis.body_category,
     body |-> pages, comments |-> comment_pages]

\* variant: the new records are put first
Concat_NewFirst(df_old, df_new) == df_new \o df_old

\* line 298: pd.concat([df_existing, df_new], ignore_index=True)
Concat(df_old, df_new) == df_old \o df_new

\* variant: the store is rewritten in every run
ShouldWrite_Always(new) == TRUE

\* line 296
ShouldWrite(new) == new # <<>>

\* --- column order, lines 300-311
\* the characters of a page column's name after its prefix: the decimal
\* digits of the page number, then a character that sorts after every digit
PageNameKey(k) == (IF k < 10 THEN <<k>> ELSE <<k \div 10, k % 10>>) \o <<100>>

\* string comparison as sorted() makes it
RECURSIVE LexLess(_, _)
LexLess(a, b) ==
    IF b = <<>> THEN FALSE
    ELSE IF a = <<>> THEN TRUE
    ELSE IF Head(a) # Head(b) THEN Head(a) < Head(b)
    ELSE LexLess(Tail(a), Tail(b))

RECURSIVE SortedPages(_)
SortedPages(S) ==
    IF S = {} THEN <<>>
    ELSE LET m == CHOOSE x \in S :
                    \A y \in S \ {x} : LexLess(PageNameKey(x), PageNameKey(y))
         IN  <<m>> \o SortedPages(S \ {m})

MaxOver(S) == IF S = {} THEN 0 ELSE CHOOSE x \in S : \A y \in S : y <= x

static_columns ==
    <<"title", "URL", "date", "source", "comments_count", "title_sentiment",
      "title_category", "body_sentiment", "body_category">>

Col(g, k) == [group |-> g, idx |-> k]

final_column_order(df) ==
    LET nb == MaxOver({Len(df[k].body) : k \in 1..Len(df)})
        nc == MaxOver({Len(df[k].comments) : k \in 1..Len(df)})
        bs == SortedPages(1..nb)
        cs == SortedPages(1..nc)
    IN  [k \in 1..Len(static_columns) |-> Col(static_columns[k], 0)]
        \o [k \in 1..nb |-> Col("body", bs[k])]
        \o [k \in 1..nc |-> Col("comments", cs[k])]

(***************************************************************************)
(* main() (lines 239-318).  What the remote answers while one new article  *)
(* is processed: the body site, whether the comment browser starts, the    *)
(* comment site, the AI service's answer.                                  *)
(***************************************************************************)
\* an article with MAX_COMMENT_PAGES short comment pages
LongComSite ==
    [k \in 1..MAX_COMMENT_PAGES |-> ComPage((k - 1) * SmallPage + 1, k * SmallPage)]
Scenario(b, st, c, a) == [body |-> b, started |-> st, com |-> c, ai |-> a]
Scenarios ==
    {Scenario(<<BodyText(2), BodyText(1)>>, TRUE, <<ComPage(1, SmallPage)>>,
              AIJson("positive", "management", "neutral", "other")),
     Scenario(<<BodyAbsent, BodyText(1)>>, TRUE, LongComSite, AIGarbage),
     Scenario(<<>>, FALSE, <<>>, AIRaise)}

MainInit ==
    /\ file_exists = FALSE
    /\ store = <<>>
    /\ store_columns = <<>>
    /\ pc = "idle"
    /\ AI_ENABLED = FALSE
    /\ df_existing = <<>>
    /\ existing_urls = {}
    /\ articles = <<>>
    /\ i = 0
    /\ new_articles_data = <<>>
    /\ calls = {}
    /\ wrote = FALSE
    /\ store_at_start = <<>>
    /\ raised_by = "none"

\* process start: lines 32-43 set AI_ENABLED from the environment, then
\* lines 242-249 load the store
MainStart ==
    /\ pc \in {"idle", "done", "raised"}
    /\ AI_ENABLED' \in BOOLEAN
    /\ df_existing' = IF file_exists THEN read_excel(store) ELSE <<>>
    /\ existing_urls' = URLsOf(df_existing')
    /\ articles' = <<>>
    /\ i' = 0
    /\ new_articles_data' = <<>>
    /\ calls' = {}
    /\ wrote' = FALSE
    /\ store_at_start' = store
    /\ raised_by' = "none"
    /\ pc' = "harvest"
    /\ UNCHANGED <<file_exists, store, store_columns, bodyVars, comVars, aiVars, hvVars>>

\* lines 251-254
MainHarvest ==
    /\ pc = "harvest"
    /\ \/ \E f \in HarvestFailures :
            /\ raised_by' = f
            /\ pc' = "raised"
            /\ UNCHANGED <<articles, i>>
       \/ \E raw \in RawListings :
            /\ articles' = ExtractStubs(raw)
            /\ IF articles' = <<>>
               THEN pc' = "done" /\ i' = i
               ELSE pc' = "loop" /\ i' = 1
            /\ UNCHANGED raised_by
    /\ UNCHANGED <<file_exists, store, store_columns, AI_ENABLED, df_existing,
                   existing_urls, new_articles_data, calls, wrote,
                   store_at_start, bodyVars, comVars, aiVars, hvVars>>

\* lines 258-259
MainSkipKnown ==
    /\ pc = "loop"
    /\ i <= Len(articles)
    /\ IsKnown(articles[i].URL, existing_urls)
    /\ i' = i + 1
    /\ UNCHANGED <<file_exists, store, store_columns, pc, AI_ENABLED, df_existing,
                   existing_urls, articles, new_articles_data, calls, wrote,
                   store_at_start, raised_by, bodyVars, comVars, aiVars, hvVars>>

\* lines 261-294: one new article
MainProcessArticle ==
    /\ pc = "loop"
    /\ i <= Len(articles)
    /\ ~IsKnown(articles[i].URL, existing_urls)
    /\ \E sc \in Scenarios :
         LET a == articles[i]
             bp == fetch_article_pages(sc.body)
             cm == fetch_comments_with_selenium(a.URL, sc.started, sc.com)
             first_page_body == IF bp # <<>> THEN bp[1] ELSE 0
             ai == analyze_article_with_ai(AI_ENABLED, a.title, first_page_body, sc.ai)
         IN  IF cm.raised
             THEN /\ pc' = "raised"
                  /\ raised_by' = "comments_start"
                  /\ calls' = calls \cup {<<"body", a.URL>>, <<"comments", a.URL>>}
                  /\ UNCHANGED <<i, new_articles_data>>
             ELSE /\ new_articles_data' =
                        Append(new_articles_data,
                               ArticleRecord(a, cm.count, cm.pages, ai.analysis, bp))
                  /\ calls' = calls \cup {<<"body", a.URL>>, <<"comments", a.URL>>,
                                          <<"ai", a.URL>>}
                  /\ i' = i + 1
                  /\ UNCHANGED <<pc, raised_by>>
    /\ UNCHANGED <<file_exists, store, store_columns, AI_ENABLED, df_existing,
                   existing_urls, articles, wrote, store_at_start,
                   bodyVars, comVars, aiVars, hvVars>>

\* lines 296-318
MainFinish ==
    /\ pc = "loop"
    /\ i > Len(articles)
    /\ IF ShouldWrite(new_articles_data)
       THEN LET df_combined == Concat(df_existing, new_articles_data)
            IN  /\ store' = to_excel(df_combined)
                /\ store_columns' = final_column_order(df_combined)
                /\ file_exists' = TRUE
                /\ wrote' = TRUE
       ELSE UNCHANGED <<store, store_columns, file_exists, wrote>>
    /\ pc' = "done"
    /\ UNCHANGED <<AI_ENABLED, df_existing, existing_urls, articles, i,
                   new_articles_data, calls, store_at_start, raised_by,
                   bodyVars, comVars, aiVars, hvVars>>

NextMain == MainStart \/ MainHarvest \/ MainSkipKnown \/ MainProcessArticle \/ MainFinish

(***************************************************************************)
(* The specifications.                                                     *)
(***************************************************************************)
Init == MainInit /\ BodyIdle /\ ComIdle /\ AIIdle /\ HvIdle
Next == NextMain
Spec == Init /\ [][Next]_vars

InitBodySpec == MainInit /\ BodyInit /\ ComIdle /\ AIIdle /\ HvIdle
SpecBody == InitBodySpec /\ [][NextBody]_vars

InitCommentsSpec == MainInit /\ BodyIdle /\ ComInit /\ AIIdle /\ HvIdle
SpecComments == InitCommentsSpec /\ [][NextComments]_vars

InitAISpec == MainInit /\ BodyIdle /\ ComIdle /\ AIInit /\ HvIdle
SpecAI == InitAISpec /\ [][NextAI]_vars

InitSessionsSpec == MainInit /\ BodyIdle /\ ComIdle /\ AIIdle /\ HvInit
NextSessions == NextHarvest \/ ComCall \/ NextComments
SpecSessions == InitSessionsSpec /\ [][NextSessions]_vars

(***************************************************************************)
(* Properties of main(), checked under Spec.                               *)
(***************************************************************************)
Occurrences(rows, u) == {k \in 1..Len(rows) : rows[k].URL = u}
ListingURLs == {articles[k].URL : k \in 1..Len(articles)}
\* the harvest returned and every URL it gave was in the store at run start
NoNewUrl ==
    /\ pc \in {"loop", "done", "raised"}
    /\ raised_by \notin HarvestFailures
    /\ ListingURLs \subseteq URLsOf(store_at_start)

\* C1 (merge correctness): the store written by a run holds exactly the URLs
\* of the prior store and of the new records, each URL in exactly one row,
\* and of several rows with one URL the most recently merged one is kept.
C1_MergeCorrectness ==
    (pc = "done" /\ wrote) =>
        LET merged == store_at_start \o to_excel(new_articles_data)
        IN  /\ URLsOf(store) = URLsOf(store_at_start) \cup URLsOf(new_articles_data)
            /\ \A u \in URLsOf(store) : Cardinality(Occurrences(store, u)) = 1
            /\ \A k \in 1..Len(store) :
                 store[k] = merged[MaxOver(Occurrences(merged, store[k].URL))]

\* C2 (URL uniqueness): the persisted store never holds two rows with the
\* same URL, after any sequence of runs from a missing store.
C2_UrlUnique ==
    \A j, k \in 1..Len(store) : j # k => store[j].URL # store[k].URL

\* C3 (no-op run): a run whose harvest yields no URL absent from the store
\* ends normally without writing, the store being what it was at run start;
\* and after a run that ended normally every URL of its listing is in the
\* store, so that the same listing harvested again is such a run.
C3_NoOpRun ==
    /\ NoNewUrl =>
         /\ pc # "raised"
         /\ ~wrote
         /\ new_articles_data = <<>>
         /\ store = store_at_start
    /\ pc = "done" => ListingURLs \subseteq URLsOf(store)

\* a second run found an unchanged, non-empty listing: nothing was written
C3_Witness ==
    /\ pc = "done"
    /\ articles # <<>>
    /\ NoNewUrl
    /\ store # <<>>

\* C4 (cost avoidance): no run calls fetch_article_pages,
\* fetch_comments_with_selenium or analyze_article_with_ai for a URL that
\* was in the store when the run loaded it.
C4_CostAvoidance ==
    \A c \in calls : c[2] \notin URLsOf(store_at_start)

\* a listing mixing a stored URL and a new one was processed to its end
C4_Witness ==
    /\ pc = "done"
    /\ calls # {}
    /\ ListingURLs \cap URLsOf(store_at_start) # {}

C8_HarvestFailureAbsorbed ==
    /\ pc = "raised" => raised_by \notin HarvestFailures
    /\ raised_by \in HarvestFailures =>
         /\ articles = <<>>
         /\ new_articles_data = <<>>
         /\ store = store_at_start

\* C9 (per-article failures never abort the run): no failure of a step of
\* one article's processing leaves main(), and the records assembled in a
\* run are persisted when the run ends.
C9_ArticleFailuresAbsorbed ==
    /\ pc = "raised" => raised_by # "comments_start"
    /\ (pc \in {"done", "raised"} /\ new_articles_data # <<>>) =>
         /\ wrote
         /\ URLsOf(new_articles_data) \subseteq URLsOf(store)

(***************************************************************************)
(* Properties of fetch_article_pages, checked under SpecBody.              *)
(***************************************************************************)
\* C7 (body pagination terminates): whatever the remote answers, at most
\* MAX_BODY_PAGES requests are made, after that many no further request is
\* possible and the function returns, and the sequence it builds has at
\* most MAX_BODY_PAGES elements.
C7_BodyTermination ==
    /\ body_fetches <= MAX_BODY_PAGES
    /\ Len(body_pages) <= MAX_BODY_PAGES
    /\ (body_pc = "loop" /\ body_fetches = MAX_BODY_PAGES) =>
         (ENABLED BodyReturn /\ ~ENABLED BodyFetchPage)
    /\ body_pc = "loop" => ENABLED NextBody

\* every one of the MAX_BODY_PAGES pages was fetched and kept
C7_Witness ==
    /\ body_pc = "returned"
    /\ body_fetches = MAX_BODY_PAGES
    /\ Len(body_pages) = MAX_BODY_PAGES

\* the texts of the pages of a log that had a body region
RECURSIVE TextsOf(_)
TextsOf(log) ==
    IF log = <<>> THEN <<>>
    ELSE (IF Head(log).kind = "body" THEN <<Head(log).text>> ELSE <<>>)
         \o TextsOf(Tail(log))

\* C11 (stop-condition a): with no body region on page 1 the result is the
\* empty sequence, whatever the later pages hold; with none on a page after
\* the first, pagination stops there and the pages collected so far are the
\* result.
C11_NoBodyRegion ==
    /\ (body_log # <<>> /\ body_log[1].kind = "nobody") => body_pages = <<>>
    /\ \A k \in 2..Len(body_log) :
         body_log[k].kind = "nobody" =>
            /\ k = Len(body_log)
            /\ body_pc = "returned"
            /\ body_pages = TextsOf(SubSeq(body_log, 1, k - 1))

\* C12 (contiguous, page-indexed sequences): the element at index k of the
\* sequence fetch_article_pages builds is the text of remote page k.
C12_IndexIsPageNumber ==
    \A k \in 1..Len(body_pages) :
        /\ k <= Len(body_log)
        /\ body_log[k] = BodyText(body_pages[k])

\* C17 (looped-back pages): the loop stops at the first page whose text
\* equals the text of the page before it and does not append it, so no two
\* consecutive elements of the sequence are equal.
C17_LoopedBackPage ==
    /\ \A k \in 1..(Len(body_pages) - 1) : body_pages[k] # body_pages[k + 1]
    /\ \A k \in 2..Len(body_log) :
         (/\ body_log[k].kind = "body"
          /\ body_log[k - 1].kind = "body"
          /\ body_log[k].text = body_log[k - 1].text) =>
            /\ k = Len(body_log)
            /\ body_pc = "returned"
            /\ body_pages = TextsOf(SubSeq(body_log, 1, k - 1))

\* pages 1 and 2 carry the same text: exactly one page is returned
C17_Witness ==
    /\ body_pc = "returned"
    /\ body_log = <<BodyText(1), BodyText(1)>>
    /\ body_pages = <<1>>

\* C18 (network failure gives a partial result): when the request for page
\* k fails the function returns, having made no further request, exactly the
\* texts collected from the pages before k.
C18_NetworkFailurePartial ==
    \A k \in 1..Len(body_log) :
        body_log[k].kind = "error" =>
            /\ k = Len(body_log)
            /\ body_pc = "returned"
            /\ body_fetches = k
            /\ body_pages = TextsOf(SubSeq(body_log, 1, k - 1))

\* two pages were collected and the third request failed
C18_Witness ==
    /\ body_pc = "returned"
    /\ Len(body_log) = 3
    /\ body_log[3] = BodyError
    /\ Len(body_pages) = 2

(***************************************************************************)
(* Properties of fetch_comments_with_selenium, checked under SpecComments. *)
(***************************************************************************)
CeilDiv(a, b) == (a + b - 1) \div b
\* every returned page carries n comments
PagesOfSize(n) ==
    \A k \in 1..Len(per_page_comments_text) : RunSize(per_page_comments_text[k]) = n

\* C6 (comment cap): the returned total_count is at most MAX_TOTAL_COMMENTS,
\* and with n comments on every page at most ceil(MAX_TOTAL_COMMENTS / n) + 1
\* pages are fetched.
C6_CommentCap ==
    com_pc = "returned" =>
        /\ ComTotalCount <= MAX_TOTAL_COMMENTS
        /\ \A n \in {SmallPage, LargePage} :
             PagesOfSize(n) => com_fetches <= CeilDiv(MAX_TOTAL_COMMENTS, n) + 1

\* the comment ids of a page, and the non-empty pages of a log
Ids(r) == r.lo..r.hi
RECURSIVE LogPages(_)
LogPages(log) ==
    IF log = <<>> THEN <<>>
    ELSE (IF Head(log).kind = "page" /\ Head(log).lo <= Head(log).hi
          THEN <<[lo |-> Head(log).lo, hi |-> Head(log).hi]>> ELSE <<>>)
         \o LogPages(Tail(log))
RECURSIVE SumSizes(_)
SumSizes(pages) ==
    IF pages = <<>> THEN 0 ELSE RunSize(Head(pages)) + SumSizes(Tail(pages))

\* C13 (stop on zero new comments, deduplicated result): no comment is held
\* twice in the accumulated list that total_count counts, and a page whose
\* comments were all collected from earlier pages of the invocation ends
\* the pagination without its text being appended.
C13_StopOnNoNewComments ==
    /\ \A j, k \in 1..Len(total_comments) :
         j # k => Ids(total_comments[j]) \cap Ids(total_comments[k]) = {}
    /\ \A k \in 2..Len(com_log) :
         (/\ com_log[k].kind = "page"
          /\ Ids(com_log[k]) # {}
          /\ Ids(com_log[k]) \subseteq UNION {Ids(com_log[j]) : j \in 1..(k - 1)}) =>
            /\ k = Len(com_log)
            /\ com_pc = "returned"
            /\ Len(per_page_comments_text) = k - 1

\* C19 (marker timeout is a stop): a timeout of the comment-list marker ends
\* the pagination; the call returns the count and the page texts of the
\* pages before it unchanged, which on page 1 is (0, empty), and no
\* exception leaves the call.
C19_TimeoutIsStop ==
    \A k \in 1..Len(com_log) :
        com_log[k].kind = "timeout" =>
            /\ k = Len(com_log)
            /\ com_pc = "returned"
            /\ driver = "quit"
            /\ per_page_comments_text = LogPages(SubSeq(com_log, 1, k - 1))
            /\ ComTotalCount = SumSizes(LogPages(SubSeq(com_log, 1, k - 1)))
            /\ k = 1 => (ComTotalCount = 0 /\ per_page_comments_text = <<>>)

\* two pages were accumulated and the marker timed out on the third
C19_Witness ==
    /\ com_pc = "returned"
    /\ Len(com_log) = 3
    /\ com_log[3] = ComTimeout
    /\ Len(per_page_comments_text) = 2
    /\ ComTotalCount > 0

\* C20 (cap policy of the loop): a page is accumulated only while the total
\* before it is below MAX_TOTAL_COMMENTS, total_count is the sum of the
\* comment counts of the returned pages, so the cap is crossed by at most
\* the last page, and at most MAX_COMMENT_PAGES pages are returned.
C20_CapPolicy ==
    /\ Len(per_page_comments_text) <= MAX_COMMENT_PAGES
    /\ ComTotalCount = SumSizes(per_page_comments_text)
    /\ \A k \in 1..Len(per_page_comments_text) :
         SumSizes(SubSeq(per_page_comments_text, 1, k - 1)) < MAX_TOTAL_COMMENTS
    /\ per_page_comments_text # <<>> =>
         ComTotalCount - RunSize(Last(per_page_comments_text)) < MAX_TOTAL_COMMENTS

\* the last of several pages crossed the cap
C20_Witness ==
    /\ com_pc = "returned"
    /\ Len(per_page_comments_text) >= 2
    /\ ComTotalCount > MAX_TOTAL_COMMENTS

(***************************************************************************)
(* Properties of analyze_article_with_ai, checked under SpecAI.            *)
(***************************************************************************)
\* C10 (graceful AI degradation): with AI disabled or an empty title the
\* call returns "N/A" in all four fields and sends no request, for every
\* title and body.
C10_GracefulDegradation ==
    (ai_pc = "returned" /\ (~ai_enabled \/ ai_title = "")) =>
        /\ ai_result.title_sentiment = "N/A"
        /\ ai_result.title_category = "N/A"
        /\ ai_result.body_sentiment = "N/A"
        /\ ai_result.body_category = "N/A"
        /\ ai_requests = <<>>

\* AI enabled, empty title, a long body: the call returned
C10_Witness ==
    /\ ai_pc = "returned"
    /\ ai_enabled
    /\ ai_title = ""
    /\ analyze_body(ai_body)

\* the Analysis returned when the service is not used
Unavailable ==
    [title_sentiment |-> "N/A", title_category |-> "N/A",
     body_sentiment |-> "N/A", body_category |-> "N/A"]

\* C15 (enricher error outcome): when the service call fails or its answer
\* is no JSON object, the call returns, without raising, an Analysis that
\* differs from the "unavailable" Analysis of a disabled service.
C15_ErrorAnalysis ==
    (/\ ai_pc = "returned"
     /\ ai_response # <<>>
     /\ ai_response[1].kind \in {"raise", "garbage"}) =>
        ai_result # Unavailable

(***************************************************************************)
(* Properties of the written header row, checked under Spec.               *)
(***************************************************************************)
PageGroups == {"body", "comments"}

\* C14 (final column order): in every written store the static fields come
\* first in their fixed order, then the body-page fields by increasing page
\* index, then the comment-page fields by increasing page index.
C14_ColumnOrder ==
    file_exists =>
        /\ Len(store_columns) >= Len(static_columns)
        /\ \A k \in 1..Len(static_columns) :
             store_columns[k].group = static_columns[k]
        /\ \A j, k \in (Len(static_columns) + 1)..Len(store_columns) :
             j < k =>
                /\ store_columns[j].group \in PageGroups
                /\ store_columns[k].group \in PageGroups
                /\ store_columns[j].group = "body" \/ store_columns[k].group = "comments"
                /\ store_columns[j].group = store_columns[k].group =>
                     store_columns[j].idx < store_columns[k].idx

(***************************************************************************)
(* Properties of the browser sessions, checked under SpecSessions.         *)
(***************************************************************************)
\* C16 (browser session release): a session acquired by the harvest or by a
\* comment fetch is released before that call returns or raises, no session
\* is open when the next call starts, and two sessions are never open at
\* once.
C16_SessionRelease ==
    /\ hv_pc \in {"returned", "raised"} => hv_driver # "open"
    /\ com_pc \in {"idle", "returned", "raised"} => driver # "open"
    /\ com_pc \in {"start", "loop"} => hv_driver # "open"
    /\ ~(hv_driver = "open" /\ driver = "open")

\* the harvest's session was released, and so was that of a comment fetch
\* ended by an unexpected exception on its second page
C16_Witness ==
    /\ hv_pc = "returned"
    /\ hv_driver = "quit"
    /\ com_pc = "returned"
    /\ driver = "quit"
    /\ Len(com_log) = 2
    /\ com_log[2] = ComRaise

====
